---- MODULE Spec2Model ----
(***************************************************************************)
(* The appointment resource of the hospital backend:                       *)
(* backend/app/api/endpoints/appointments.py over the ORM models of        *)
(* backend/app/models and the request/response schemas of                  *)
(* backend/app/schemas/appointment.py.                                     *)
(*                                                                         *)
(* A nullable column value is None (<<>>) or Some(v) (<<v>>).              *)
(***************************************************************************)
EXTENDS Integers, Sequences, FiniteSets, TLC

VARIABLES
    users,          \* the user table
    doctors,        \* the doctor table
    appointments,   \* the appointment table: id -> row
    next_id,        \* next value of the appointment id sequence
    now,            \* datetime.utcnow() as the latest write read it
    updates,        \* UPDATE statements issued so far
    deleted,        \* ids whose delete by the owning patient succeeded
    last,           \* the latest request and its response
    in_flight,      \* the update requests that run concurrently: slot -> state
    webapp,         \* the prediction web form (src/app.py): its global and calls
    experiment      \* the AutoML runner (src/run_experiment.py)

\* The variables of the appointment backend.
backend_vars ==
    <<users, doctors, appointments, next_id, now, updates, deleted, last, in_flight>>

vars == <<backend_vars, webapp, experiment>>

----------------------------------------------------------------------------
(* Bounds of the model *)

MaxAppointments == 2      \* create requests reaching the INSERT
MaxUpdates == 1           \* update requests reaching the commit
MaxPatchFields == 1       \* fields explicitly set in one update payload
MaxSkip == 1              \* largest offset passed to the list endpoint
MaxCalls == 2             \* calls of get_watson_predictor by one thread
MaxRuns == 2              \* calls of run_automl_experiment

----------------------------------------------------------------------------
(* Values *)

None == <<>>
Some(v) == <<v>>

AppointmentStatus ==
    {"scheduled", "confirmed", "in_progress", "completed", "cancelled", "no_show"}

AppointmentType ==
    {"consultation", "follow_up", "emergency", "teleconsultation", "procedure"}

DefaultDurationMinutes == 30
DefaultSkip == 0
DefaultLimit == 100

\* Representative request values.
Dates == {1, 2}
Durations == {DefaultDurationMinutes, 60}
Texts == {"t"}

\* The fields of AppointmentUpdate, every one Optional with default None.
UpdateFields ==
    {"status", "scheduled_date", "duration_minutes", "is_virtual",
     "reason_for_visit", "symptoms", "notes", "meeting_link", "location"}

\* Every column of the appointment table.
AppointmentColumns ==
    {"id", "patient_id", "doctor_id", "appointment_type", "status",
     "scheduled_date", "duration_minutes", "actual_start_time", "actual_end_time",
     "is_virtual", "meeting_link", "location", "reason_for_visit", "symptoms",
     "notes", "consultation_fee", "payment_status", "follow_up_required",
     "follow_up_date", "ai_risk_score", "ai_recommendations", "created_at",
     "updated_at"}

----------------------------------------------------------------------------
(* The user and doctor tables (read-only for the appointment endpoints) *)

User(id, role, is_superuser) == [id |-> id, role |-> role, is_superuser |-> is_superuser]

Doctor(id, user_id) == [id |-> id, user_id |-> user_id]

\* Two patients, a doctor with a profile, a doctor without one, a superuser.
InitialUsers ==
    { User(1, "patient", FALSE), User(2, "patient", FALSE),
      User(3, "doctor", FALSE),  User(4, "doctor", FALSE),
      User(5, "admin", TRUE) }

\* Doctor profile 7 belongs to user 3.
InitialDoctors == { Doctor(7, 3) }

----------------------------------------------------------------------------
(* ORM relationships *)

\* Doctor.user = relationship("User", backref="doctor_profile"): the backref
\* is the one-to-many side and no uselist=False is given, so the attribute
\* User.doctor_profile is a collection of Doctor rows.
DoctorProfileUselist == TRUE

\* hasattr(current_user, 'doctor_profile'): the backref installs the attribute
\* on the User class, so every User instance has it.
HasDoctorProfileAttr(user) == TRUE

\* current_user.doctor_profile
doctor_profile(user) ==
    LET rows == {d \in doctors : d.user_id = user.id}
    IN  IF DoctorProfileUselist
        THEN [kind |-> "InstrumentedList", rows |-> rows, id |-> 0]
        ELSE IF rows = {}
             THEN [kind |-> "NoneType", rows |-> rows, id |-> 0]
             ELSE [kind |-> "Doctor", rows |-> rows, id |-> (CHOOSE d \in rows : TRUE).id]

\* obj.id: a value or AttributeError.
GetAttrId(obj) ==
    IF obj.kind = "Doctor"
    THEN [raised |-> FALSE, value |-> obj.id]
    ELSE [raised |-> TRUE, value |-> 0]

----------------------------------------------------------------------------
(* Schemas *)

\* AppointmentCreate has the fields of AppointmentBase; doctor_id and
\* scheduled_date are required.
CreateBodyValid(body) ==
    body.doctor_id # None /\ body.scheduled_date # None

\* AppointmentCreate(**body).model_dump(): the declared fields with their
\* defaults; keys the schema does not declare are ignored.
AppointmentCreateDump(body) ==
    [doctor_id        |-> body.doctor_id[1],
     appointment_type |-> IF body.appointment_type = None
                          THEN "consultation" ELSE body.appointment_type[1],
     scheduled_date   |-> body.scheduled_date,
     duration_minutes |-> IF body.duration_minutes = None
                          THEN Some(DefaultDurationMinutes) ELSE body.duration_minutes,
     is_virtual       |-> IF body.is_virtual = None THEN Some(FALSE) ELSE body.is_virtual,
     reason_for_visit |-> body.reason_for_visit,
     symptoms         |-> body.symptoms,
     notes            |-> body.notes]

\* appointment_in.model_dump(): every field, the unset ones as None.
AppointmentUpdateDumpAll(appointment_in) ==
    [f \in UpdateFields |-> appointment_in[f]]

\* The dump of a schema that keeps undeclared keys (extra = "allow").
AppointmentUpdateDumpExtra(appointment_in) ==
    LET keys == appointment_in.fields_set
                  \cup (IF appointment_in.extra_patient_id # None
                        THEN {"patient_id"} ELSE {})
                  \cup (IF appointment_in.extra_doctor_id # None
                        THEN {"doctor_id"} ELSE {})
    IN  [f \in keys |->
            IF f = "patient_id" THEN appointment_in.extra_patient_id[1]
            ELSE IF f = "doctor_id" THEN appointment_in.extra_doctor_id[1]
            ELSE appointment_in[f]]

\* appointment_in.model_dump(exclude_unset=True): the fields the request set
\* among those the schema declares; pydantic drops every other key.
AppointmentUpdateDump(appointment_in) ==
    [f \in appointment_in.fields_set |-> appointment_in[f]]

\* The response model Appointment (AppointmentInDBBase): status,
\* duration_minutes and is_virtual are not Optional.
ResponseValid(row) ==
    /\ row.status # None
    /\ row.duration_minutes # None
    /\ row.is_virtual # None

----------------------------------------------------------------------------
(* Table constraints *)

\* A database that does not enforce foreign keys.
ForeignKeysUnenforced(row) == TRUE

\* ForeignKey("user.id"), ForeignKey("doctor.id")
ForeignKeysHold(row) ==
    /\ row.patient_id \in {u.id : u \in users}
    /\ row.doctor_id \in {d.id : d \in doctors}

\* nullable=False on a column an endpoint can write
NotNullHolds(row) == row.scheduled_date # None

\* A row whose id does not come from the sequence.
NewAppointmentWithoutSequence(id, dump, patient_id) ==
    [id                 |-> 1,
     patient_id         |-> patient_id,
     doctor_id          |-> dump.doctor_id,
     appointment_type   |-> dump.appointment_type,
     status             |-> Some("scheduled"),
     scheduled_date     |-> dump.scheduled_date,
     duration_minutes   |-> dump.duration_minutes,
     actual_start_time  |-> None,
     actual_end_time    |-> None,
     is_virtual         |-> dump.is_virtual,
     meeting_link       |-> None,
     location           |-> None,
     reason_for_visit   |-> dump.reason_for_visit,
     symptoms           |-> dump.symptoms,
     notes              |-> dump.notes,
     consultation_fee   |-> 0,
     payment_status     |-> "pending",
     follow_up_required |-> FALSE,
     follow_up_date     |-> None,
     ai_risk_score      |-> None,
     ai_recommendations |-> None,
     created_at         |-> now,
     updated_at         |-> now]

\* Appointment(**kwargs) followed by the INSERT: the column defaults fill
\* what the constructor was not given.
NewAppointment(id, dump, patient_id) ==
    [id                 |-> id,
     patient_id         |-> patient_id,
     doctor_id          |-> dump.doctor_id,
     appointment_type   |-> dump.appointment_type,
     status             |-> Some("scheduled"),
     scheduled_date     |-> dump.scheduled_date,
     duration_minutes   |-> dump.duration_minutes,
     actual_start_time  |-> None,
     actual_end_time    |-> None,
     is_virtual         |-> dump.is_virtual,
     meeting_link       |-> None,
     location           |-> None,
     reason_for_visit   |-> dump.reason_for_visit,
     symptoms           |-> dump.symptoms,
     notes              |-> dump.notes,
     consultation_fee   |-> 0,
     payment_status     |-> "pending",
     follow_up_required |-> FALSE,
     follow_up_date     |-> None,
     ai_risk_score      |-> None,
     ai_recommendations |-> None,
     created_at         |-> now,
     updated_at         |-> now]

\* The query without its filter: the first row of the table, whatever its id.
FirstByIdUnfiltered(appointment_id) ==
    IF appointments = <<>>
    THEN None
    ELSE Some(appointments[CHOOSE i \in DOMAIN appointments :
                               \A j \in DOMAIN appointments : i <= j])

\* db.query(Appointment).filter(Appointment.id == appointment_id).first()
FirstById(appointment_id) ==
    IF appointment_id \in DOMAIN appointments
    THEN Some(appointments[appointment_id]) ELSE None

----------------------------------------------------------------------------
(* Requests *)

\* A JSON body of POST /appointments/. None is an absent key. extra_patient_id
\* and extra_status are keys AppointmentCreate does not declare.
CreateBody(doctor_id, scheduled_date, rest, extra_patient_id, extra_status) ==
    [doctor_id        |-> doctor_id,
     scheduled_date   |-> scheduled_date,
     appointment_type |-> IF rest THEN Some("emergency") ELSE None,
     duration_minutes |-> IF rest THEN Some(60) ELSE None,
     is_virtual       |-> IF rest THEN Some(TRUE) ELSE None,
     reason_for_visit |-> IF rest THEN Some("t") ELSE None,
     symptoms         |-> IF rest THEN Some("t") ELSE None,
     notes            |-> IF rest THEN Some("t") ELSE None,
     extra_patient_id |-> extra_patient_id,
     extra_status     |-> extra_status]

CreateBodies ==
    { CreateBody(Some(7), Some(1), FALSE, None, None),
      CreateBody(Some(7), Some(2), TRUE, Some(2), Some("completed")),
      CreateBody(Some(9), Some(1), FALSE, None, None),
      CreateBody(Some(7), None, FALSE, None, None) }

\* AppointmentUpdate(): every field None, nothing set. extra_patient_id and
\* extra_doctor_id are the keys "patient_id" and "doctor_id" of the request
\* body, which the schema does not declare.
EmptyUpdate ==
    [fields_set |-> {}, status |-> None, scheduled_date |-> None,
     duration_minutes |-> None, is_virtual |-> None, reason_for_visit |-> None,
     symptoms |-> None, notes |-> None, meeting_link |-> None, location |-> None,
     extra_patient_id |-> None, extra_doctor_id |-> None]

\* The values a request may give a field of AppointmentUpdate (None is an
\* explicit null).
UpdateFieldValues(f) ==
    CASE f = "status" -> {None} \cup {Some(s) : s \in AppointmentStatus}
      [] f = "scheduled_date" -> {None} \cup {Some(d) : d \in Dates}
      [] f = "duration_minutes" -> {None} \cup {Some(d) : d \in Durations}
      [] f = "is_virtual" -> {None, Some(TRUE), Some(FALSE)}
      [] OTHER -> {None} \cup {Some(t) : t \in Texts}

WithField(appointment_in, f, v) ==
    [appointment_in EXCEPT ![f] = v, !.fields_set = @ \cup {f}]

RECURSIVE UpdatesSetting(_)
\* The AppointmentUpdate objects with at most n fields set.
UpdatesSetting(n) ==
    IF n = 0 THEN {EmptyUpdate}
    ELSE LET smaller == UpdatesSetting(n - 1)
         IN  smaller \cup
             UNION { UNION { {WithField(u, f, v) : v \in UpdateFieldValues(f)}
                             : f \in UpdateFields \ u.fields_set }
                     : u \in smaller }

\* A body that names other parties along with a declared field.
RebindingUpdate ==
    [WithField(EmptyUpdate, "notes", Some("t"))
        EXCEPT !.extra_patient_id = Some(2), !.extra_doctor_id = Some(9)]

UpdateRequests == UpdatesSetting(MaxPatchFields) \cup {RebindingUpdate}

AppointmentIds == 1..(MaxAppointments + 1)

----------------------------------------------------------------------------
(* Access-control checks *)

\* appointments.py:73-76. The conjuncts are evaluated left to right and stop
\* at the first false one; evaluating doctor_profile.id may raise.
ReadPermission(current_user, appointment) ==
    IF ~(appointment.patient_id # current_user.id) THEN "allow"
    ELSE IF ~HasDoctorProfileAttr(current_user)
         THEN (IF ~current_user.is_superuser THEN "forbidden" ELSE "allow")
         ELSE LET pid == GetAttrId(doctor_profile(current_user))
              IN  IF pid.raised THEN "AttributeError"
                  ELSE IF ~(pid.value # appointment.doctor_id) THEN "allow"
                  ELSE IF ~current_user.is_superuser THEN "forbidden"
                  ELSE "allow"

\* appointments.py:104-107
UpdatePermission(current_user, appointment) ==
    IF ~(appointment.patient_id # current_user.id) THEN "allow"
    ELSE IF ~HasDoctorProfileAttr(current_user)
         THEN (IF ~current_user.is_superuser THEN "forbidden" ELSE "allow")
         ELSE LET pid == GetAttrId(doctor_profile(current_user))
              IN  IF pid.raised THEN "AttributeError"
                  ELSE IF ~(pid.value # appointment.doctor_id) THEN "allow"
                  ELSE IF ~current_user.is_superuser THEN "forbidden"
                  ELSE "allow"

\* The delete check with the matching doctor let through, as in the read check.
DeletePermissionAsRead(current_user, appointment) ==
    IF /\ appointment.patient_id # current_user.id
       /\ ~(\E d \in doctors : d.user_id = current_user.id /\ d.id = appointment.doctor_id)
       /\ ~current_user.is_superuser
    THEN "forbidden" ELSE "allow"

\* A delete that checks nothing about the actor.
DeletePermissionOpen(current_user, appointment) == "allow"

\* appointments.py:140
DeletePermission(current_user, appointment) ==
    IF appointment.patient_id # current_user.id /\ ~current_user.is_superuser
    THEN "forbidden" ELSE "allow"

----------------------------------------------------------------------------
(* Responses *)

\* request is the part of the request the handler has read when it answers.
Response(op, current_user, id, request, result, ret) ==
    [op |-> op, actor |-> current_user.id, id |-> id, request |-> request,
     result |-> result, ret |-> ret, wrote |-> FALSE]

Wrote(response) == [response EXCEPT !.wrote = TRUE]

\* FastAPI validates what the handler returns against response_model.
Serialize(op, current_user, id, request, rows) ==
    IF \A i \in 1..Len(rows) : ResponseValid(rows[i])
    THEN Response(op, current_user, id, request, "ok", rows)
    ELSE Response(op, current_user, id, request, "ResponseValidationError", <<>>)

\* datetime.utcnow() at a write: successive writes read successive times.
UtcNow == now + 1

Min(a, b) == IF a < b THEN a ELSE b

\* The orders in which a query without ORDER BY may return the rows.
Orders(rows) ==
    {s \in [1..Cardinality(rows) -> rows] :
        \A i, j \in 1..Cardinality(rows) : i # j => s[i] # s[j]}

\* .offset(skip).limit(limit)
Page(rows, skip, limit) == SubSeq(rows, skip + 1, Min(Len(rows), skip + limit))

----------------------------------------------------------------------------
(* Endpoints *)

\* A request that wrote nothing leaves every table as it was, so whatever may
\* follow it may as well follow the state before it: the behaviours are
\* continued from the initial state and from the states a write has reached.
Ready == last.op = "none" \/ last.wrote

\* The same call with patient_id taken from the request body when it has one.
CreateKwargsFromBody(body, current_user) ==
    [dump |-> AppointmentCreateDump(body),
     patient_id |-> IF body.extra_patient_id = None
                    THEN current_user.id ELSE body.extra_patient_id[1]]

\* Appointment(**appointment_in.model_dump(), patient_id=current_user.id)
CreateKwargs(body, current_user) ==
    [dump |-> AppointmentCreateDump(body), patient_id |-> current_user.id]

\* POST /
create_appointment(current_user, body) ==
    /\ Ready
    /\ next_id <= MaxAppointments
    /\ IF ~CreateBodyValid(body)
       THEN /\ last' = Response("create", current_user, 0, body, "ValidationError", <<>>)
            /\ UNCHANGED <<appointments, next_id, now>>
       ELSE LET kw == CreateKwargs(body, current_user)
                t == UtcNow
                row == [NewAppointment(next_id, kw.dump, kw.patient_id)
                            EXCEPT !.created_at = t, !.updated_at = t]
            IN  /\ next_id' = next_id + 1
                /\ IF ForeignKeysHold(row) /\ NotNullHolds(row)
                   THEN /\ appointments' =
                              [i \in DOMAIN appointments \cup {next_id} |->
                                  IF i = next_id THEN row ELSE appointments[i]]
                        /\ now' = t
                        /\ last' = Wrote(Serialize("create", current_user, next_id,
                                                   body, <<row>>))
                   ELSE /\ last' = Wrote(Response("create", current_user, 0, body,
                                                  "IntegrityError", <<>>))
                        /\ UNCHANGED <<appointments, now>>
    /\ UNCHANGED <<webapp, experiment, in_flight, users, doctors, updates, deleted>>

\* A read that commits the row it has loaded as modified, which stamps
\* updated_at.
read_appointmentStamping(current_user, appointment_id) ==
    LET found == FirstById(appointment_id)
    IN  /\ Ready
        /\ UNCHANGED <<webapp, experiment, in_flight, users, doctors, next_id, updates, deleted>>
        /\ IF found = None
           THEN /\ last' = Response("read", current_user, appointment_id, None,
                                    "NotFound", <<>>)
                /\ UNCHANGED <<appointments, now>>
           ELSE /\ appointments' = [appointments EXCEPT
                                       ![appointment_id].updated_at = UtcNow]
                /\ now' = UtcNow
                /\ last' = Wrote(Serialize("read", current_user, appointment_id,
                                           None, <<appointments'[appointment_id]>>))

\* GET /{appointment_id}
read_appointment(current_user, appointment_id) ==
    LET found == FirstById(appointment_id)
    IN  /\ Ready
        /\ last' =
              IF found = None
              THEN Response("read", current_user, appointment_id, None, "NotFound", <<>>)
              ELSE LET permission == ReadPermission(current_user, found[1])
                   IN  IF permission = "AttributeError"
                       THEN Response("read", current_user, appointment_id, None,
                                     "AttributeError", <<>>)
                       ELSE IF permission = "forbidden"
                       THEN Response("read", current_user, appointment_id, None,
                                     "Forbidden", <<>>)
                       ELSE Serialize("read", current_user, appointment_id, None, found)
        /\ UNCHANGED <<webapp, experiment, in_flight, users, doctors, appointments, next_id, now, updates, deleted>>

\* An overwrite that stamps created_at as well.
SetAttrsStampingCreated(appointment, dump) ==
    [c \in AppointmentColumns |->
        IF c \in DOMAIN dump THEN dump[c]
        ELSE IF c = "created_at" THEN now + 1
        ELSE appointment[c]]

\* An overwrite that rebuilds the row from the payload: the columns the
\* constructor defaults fall back to their defaults.
SetAttrsRebuilding(appointment, dump) ==
    [c \in AppointmentColumns |->
        IF c \in DOMAIN dump THEN dump[c]
        ELSE IF c = "appointment_type" THEN "consultation"
        ELSE appointment[c]]

\* for field, value in ...items(): setattr(appointment, field, value)
SetAttrs(appointment, dump) ==
    [c \in AppointmentColumns |->
        IF c \in DOMAIN dump THEN dump[c] ELSE appointment[c]]

\* PUT /{appointment_id}
update_appointment(current_user, appointment_id, appointment_in) ==
    LET found == FirstById(appointment_id)
    IN  /\ Ready
        /\ updates < MaxUpdates
        /\ UNCHANGED <<webapp, experiment, in_flight, users, doctors, next_id, deleted>>
        /\ IF found = None
           THEN /\ last' = Response("update", current_user, appointment_id,
                                    None, "NotFound", <<>>)
                /\ UNCHANGED <<appointments, now, updates>>
           ELSE LET permission == UpdatePermission(current_user, found[1])
                    patched == SetAttrs(found[1], AppointmentUpdateDump(appointment_in))
                IN  IF permission # "allow"
                    THEN /\ last' = Response("update", current_user, appointment_id,
                                             None,
                                             IF permission = "forbidden"
                                             THEN "Forbidden" ELSE "AttributeError", <<>>)
                         /\ UNCHANGED <<appointments, now, updates>>
                    ELSE IF ~NotNullHolds(patched)
                    THEN /\ last' = Response("update", current_user, appointment_id,
                                             appointment_in, "IntegrityError", <<>>)
                         /\ UNCHANGED <<appointments, now, updates>>
                    ELSE IF patched = found[1]
                    THEN \* no attribute changed: the flush issues no UPDATE
                         /\ last' = Serialize("update", current_user, appointment_id,
                                              appointment_in, found)
                         /\ UNCHANGED <<appointments, now, updates>>
                    ELSE LET t == UtcNow
                             row == [patched EXCEPT !.updated_at = t]
                         IN  /\ appointments' = [appointments EXCEPT ![appointment_id] = row]
                             /\ now' = t
                             /\ updates' = updates + 1
                             /\ last' = Wrote(Serialize("update", current_user,
                                                        appointment_id, appointment_in,
                                                        <<row>>))

\* A delete that is never committed.
DeleteRowUncommitted(appointment_id) == appointments

\* A delete that cascades to every appointment of the same patient.
DeleteRowCascading(appointment_id) ==
    [i \in {j \in DOMAIN appointments :
               appointments[j].patient_id # appointments[appointment_id].patient_id}
        |-> appointments[i]]

\* A soft delete: the row stays, marked cancelled.
DeleteRowSoft(appointment_id) ==
    [appointments EXCEPT ![appointment_id].status = Some("cancelled")]

\* db.delete(appointment); db.commit()
DeleteRow(appointment_id) ==
    [i \in DOMAIN appointments \ {appointment_id} |-> appointments[i]]

\* A handler that deletes the row before it checks the actor.
delete_appointmentThenCheck(current_user, appointment_id) ==
    LET found == FirstById(appointment_id)
    IN  /\ Ready
        /\ UNCHANGED <<webapp, experiment, in_flight, users, doctors, next_id, now, updates>>
        /\ IF found = None
           THEN /\ last' = Response("delete", current_user, appointment_id, None,
                                    "NotFound", <<>>)
                /\ UNCHANGED <<appointments, deleted>>
           ELSE /\ appointments' = DeleteRow(appointment_id)
                /\ deleted' = IF found[1].patient_id = current_user.id
                              THEN deleted \cup {appointment_id} ELSE deleted
                /\ last' = Wrote(Response("delete", current_user, appointment_id, None,
                                          IF DeletePermission(current_user, found[1])
                                                = "forbidden"
                                          THEN "Forbidden" ELSE "ok", <<>>))

\* The body of delete_appointment (appointments.py:132-148), whenever it runs.
delete_handler(current_user, appointment_id) ==
    LET found == FirstById(appointment_id)
    IN  /\ UNCHANGED <<webapp, experiment, in_flight, users, doctors, next_id, now, updates>>
        /\ IF found = None
           THEN /\ last' = Response("delete", current_user, appointment_id, None,
                                    "NotFound", <<>>)
                /\ UNCHANGED <<appointments, deleted>>
           ELSE IF DeletePermission(current_user, found[1]) = "forbidden"
           THEN /\ last' = Response("delete", current_user, appointment_id, None,
                                    "Forbidden", <<>>)
                /\ UNCHANGED <<appointments, deleted>>
           ELSE /\ appointments' = DeleteRow(appointment_id)
                /\ deleted' = IF found[1].patient_id = current_user.id
                              THEN deleted \cup {appointment_id} ELSE deleted
                /\ last' = Wrote(Response("delete", current_user, appointment_id,
                                          None, "ok", <<>>))

\* DELETE /{appointment_id}
delete_appointment(current_user, appointment_id) ==
    Ready /\ delete_handler(current_user, appointment_id)

\* The filter criterion of the doctor branch (appointments.py:26):
\* Appointment.doctor_id == current_user.doctor_profile.id
\*     if hasattr(current_user, 'doctor_profile') else False
DoctorCriterion(current_user) ==
    IF HasDoctorProfileAttr(current_user)
    THEN LET pid == GetAttrId(doctor_profile(current_user))
         IN  IF pid.raised
             THEN [raised |-> TRUE, rows |-> {}]
             ELSE [raised |-> FALSE,
                   rows |-> {appointments[i] : i \in
                               {j \in DOMAIN appointments :
                                   appointments[j].doctor_id = pid.value}}]
    ELSE [raised |-> FALSE, rows |-> {}]

\* A list without the filter on the actor.
PatientCriterionUnfiltered(current_user) ==
    {appointments[i] : i \in DOMAIN appointments}

\* The filter of the other branch (appointments.py:30)
PatientCriterion(current_user) ==
    {appointments[i] : i \in
        {j \in DOMAIN appointments : appointments[j].patient_id = current_user.id}}

\* GET /
read_appointments(current_user, skip, limit) ==
    LET request == [skip |-> skip, limit |-> limit]
    IN  /\ Ready
        /\ UNCHANGED <<webapp, experiment, in_flight, users, doctors, appointments, next_id, now, updates, deleted>>
        /\ IF current_user.role = "doctor"
           THEN LET criterion == DoctorCriterion(current_user)
                IN  IF criterion.raised
                    THEN last' = Response("list", current_user, 0, request,
                                          "AttributeError", <<>>)
                    ELSE \E rows \in Orders(criterion.rows) :
                            last' = Serialize("list", current_user, 0, request,
                                              Page(rows, skip, limit))
           ELSE \E rows \in Orders(PatientCriterion(current_user)) :
                   last' = Serialize("list", current_user, 0, request,
                                     Page(rows, skip, limit))

----------------------------------------------------------------------------
(* Specification *)

\* The tables after Base.metadata.create_all and the seed rows, no request yet.
BackendInit ==
    /\ users = InitialUsers
    /\ doctors = InitialDoctors
    /\ appointments = <<>>
    /\ next_id = 1
    /\ now = 0
    /\ updates = 0
    /\ deleted = {}
    /\ last = [op |-> "none", actor |-> 0, id |-> 0, request |-> None,
               result |-> "none", ret |-> <<>>, wrote |-> FALSE]
    /\ in_flight = <<>>

Init ==
    /\ BackendInit
    /\ webapp = <<>>
    /\ experiment = <<>>

ListLimits == {0, 1, DefaultLimit}

Next ==
    \/ \E u \in users, body \in CreateBodies : create_appointment(u, body)
    \/ \E u \in users, id \in AppointmentIds : read_appointment(u, id)
    \/ \E u \in users, id \in AppointmentIds, appointment_in \in UpdateRequests :
          update_appointment(u, id, appointment_in)
    \/ \E u \in users, id \in AppointmentIds : delete_appointment(u, id)
    \/ \E u \in users, skip \in DefaultSkip..MaxSkip, limit \in ListLimits :
          read_appointments(u, skip, limit)

Spec == Init /\ [][Next]_vars

\* The row of the user table with the id.
UserById(id) == CHOOSE u \in users : u.id = id

----------------------------------------------------------------------------
(* Two update requests in flight on one appointment *)

\* Each request runs update_appointment in its own database session and
\* transaction: it loads the row and checks the actor (appointments.py:96-111),
\* then assigns the payload and commits (appointments.py:113-119). Requests
\* interleave between the two steps; the database applies one UPDATE of a row
\* at a time.

Requests == {1, 2}

\* The fields the concurrent requests set.
ConcurrentFields == {"status", "scheduled_date", "notes"}

ConcurrentUpdateRequests ==
    {u \in UpdateRequests : u.fields_set \subseteq ConcurrentFields}

\* The senders: the appointment's patient and its matching doctor.
ConcurrentActors == {u \in InitialUsers : u.id \in {1, 3}}

\* A request that has arrived and has not run yet. loaded is the row its
\* session holds, stale whether another request has committed an UPDATE of
\* that row since, order its place among the commits.
Arrived(current_user, appointment_id, appointment_in) ==
    [pc |-> "arrived", actor |-> current_user.id, id |-> appointment_id,
     appointment_in |-> appointment_in, loaded |-> None, stale |-> FALSE,
     order |-> 0, result |-> "none"]

Answered(request, response, order) ==
    [request EXCEPT !.pc = "done", !.result = response.result, !.order = order]

\* A flush that writes every column of the row the session holds.
AllColumns(loaded, patched) == AppointmentColumns \ {"id"}

\* The flush puts into the UPDATE the columns whose value differs from the
\* value the session loaded.
ChangedColumns(loaded, patched) ==
    {c \in AppointmentColumns : patched[c] # loaded[c]}

Commits == Cardinality({r \in DOMAIN in_flight : in_flight[r].order > 0})

\* appointments.py:96-111: the lookup and the permission check.
load_appointment(r) ==
    LET request == in_flight[r]
        current_user == UserById(request.actor)
        found == FirstById(request.id)
        permission == UpdatePermission(current_user, found[1])
        refused == IF found = None THEN "NotFound"
                   ELSE IF permission = "forbidden" THEN "Forbidden"
                   ELSE "AttributeError"
        response == Response("update", current_user, request.id, None, refused, <<>>)
    IN  /\ request.pc = "arrived"
        /\ UNCHANGED <<webapp, experiment, users, doctors, appointments, next_id, now, updates, deleted>>
        /\ IF found # None /\ permission = "allow"
           THEN /\ in_flight' = [in_flight EXCEPT ![r] =
                                    [request EXCEPT !.pc = "loaded", !.loaded = found]]
                /\ UNCHANGED last
           ELSE /\ in_flight' = [in_flight EXCEPT ![r] = Answered(request, response, 0)]
                /\ last' = response

\* appointments.py:113-119: the setattr loop, db.add, db.commit, db.refresh.
commit_update(r) ==
    LET request == in_flight[r]
        current_user == UserById(request.actor)
        loaded == request.loaded[1]
        patched == SetAttrs(loaded, AppointmentUpdateDump(request.appointment_in))
        changed == ChangedColumns(loaded, patched)
        stored == appointments[request.id]
        t == UtcNow
        row == [c \in AppointmentColumns |->
                   IF c = "updated_at" THEN t
                   ELSE IF c \in changed THEN patched[c] ELSE stored[c]]
    IN  /\ request.pc = "loaded"
        /\ UNCHANGED <<webapp, experiment, users, doctors, next_id, deleted>>
        /\ IF changed = {}
           THEN \* no UPDATE; db.refresh reads the row as it is committed, and
                \* raises when the row is gone
                LET response ==
                       IF request.id \in DOMAIN appointments
                       THEN Serialize("update", current_user, request.id,
                                      request.appointment_in, <<stored>>)
                       ELSE Response("update", current_user, request.id,
                                     request.appointment_in, "InvalidRequestError", <<>>)
                IN  /\ in_flight' = [in_flight EXCEPT ![r] =
                                        Answered(request, response, Commits + 1)]
                    /\ last' = response
                    /\ UNCHANGED <<appointments, now, updates>>
           ELSE IF request.id \notin DOMAIN appointments
           THEN \* the UPDATE matches no row: the flush raises StaleDataError
                LET response == Response("update", current_user, request.id,
                                         request.appointment_in, "StaleDataError", <<>>)
                IN  /\ in_flight' = [in_flight EXCEPT ![r] =
                                        Answered(request, response, 0)]
                    /\ last' = response
                    /\ UNCHANGED <<appointments, now, updates>>
           ELSE IF ~NotNullHolds(patched)
           THEN LET response == Response("update", current_user, request.id,
                                         request.appointment_in, "IntegrityError", <<>>)
                IN  /\ in_flight' = [in_flight EXCEPT ![r] =
                                        Answered(request, response, 0)]
                    /\ last' = response
                    /\ UNCHANGED <<appointments, now, updates>>
           ELSE LET response == Wrote(Serialize("update", current_user, request.id,
                                                request.appointment_in, <<row>>))
                IN  /\ appointments' = [appointments EXCEPT ![request.id] = row]
                    /\ now' = t
                    /\ updates' = updates + 1
                    /\ last' = response
                    /\ in_flight' =
                          [s \in DOMAIN in_flight |->
                              IF s = r THEN Answered(request, response, Commits + 1)
                              ELSE IF in_flight[s].pc = "loaded"
                                   THEN [in_flight[s] EXCEPT !.stale = TRUE]
                                   ELSE in_flight[s]]

\* The state after user 1 has created appointment 1 with doctor profile 7,
\* with two update requests on it arrived.
InitConcurrent ==
    \E body \in {b \in CreateBodies : CreateBodyValid(b) /\ b.doctor_id = Some(7)} :
       LET patient == CHOOSE u \in InitialUsers : u.id = 1
           kw == CreateKwargs(body, patient)
           row == [NewAppointment(1, kw.dump, kw.patient_id)
                       EXCEPT !.created_at = 1, !.updated_at = 1]
       IN  /\ users = InitialUsers
           /\ doctors = InitialDoctors
           /\ now = 1
           /\ appointments = [i \in {1} |-> row]
           /\ next_id = 2
           /\ updates = 0
           /\ deleted = {}
           /\ last = Wrote(Serialize("create", patient, 1, body, <<row>>))
           /\ in_flight \in [Requests -> {Arrived(u, 1, a) :
                                            u \in ConcurrentActors,
                                            a \in ConcurrentUpdateRequests}]
           /\ webapp = <<>>
           /\ experiment = <<>>

NextConcurrent ==
    \/ \E r \in Requests : load_appointment(r)
    \/ \E r \in Requests : commit_update(r)

SpecConcurrent == InitConcurrent /\ [][NextConcurrent]_vars

\* The two update requests with delete requests on the same appointment
\* coming in between their steps.
NextDeleteRace ==
    \/ \E r \in Requests : load_appointment(r)
    \/ \E r \in Requests : commit_update(r)
    \/ \E u \in ConcurrentActors, r \in Requests : delete_handler(u, in_flight[r].id)

SpecDeleteRace == InitConcurrent /\ [][NextDeleteRace]_vars

----------------------------------------------------------------------------
(* The predictor singleton of the prediction web form *)

\* get_watson_predictor (src/app.py:30-52) runs in the threads of the web
\* server; a step is one access to the module global watson_predictor or
\* one call out of the function.

Threads == {1, 2}

\* webapp.watson_predictor is the global: None or Some(object);
\* webapp.created counts the invocations of create_predictor_from_config;
\* webapp.tested[o] is the outcome of the latest test_connection on object o;
\* webapp.threads[th] is where thread th stands, the calls it has made and
\* what its latest call returned.
InitialWebapp ==
    [watson_predictor |-> None,
     created |-> 0,
     tested |-> <<>>,
     threads |-> [th \in Threads |-> [pc |-> "idle", calls |-> 0, ret |-> None]]]

At(th, pc) == webapp.threads[th].pc = pc

Goto(th, pc) == [webapp EXCEPT !.threads[th].pc = pc]

\* return value: the call is over.
Return(app, th, value) ==
    [app EXCEPT !.threads[th].pc = "done", !.threads[th].ret = value]

\* app.py:32: if watson_predictor is None
call_get_watson_predictor(th) ==
    /\ At(th, "idle") \/ At(th, "done")
    /\ webapp.threads[th].calls < MaxCalls
    /\ webapp' = [webapp EXCEPT
                     !.threads[th].calls = @ + 1,
                     !.threads[th].ret = None,
                     !.threads[th].pc = IF webapp.watson_predictor = None
                                        THEN "exists" ELSE "return"]
    /\ UNCHANGED <<backend_vars, experiment>>

\* app.py:34-37: the configuration file is there or not.
check_config_file(th) ==
    /\ At(th, "exists")
    /\ \E exists \in BOOLEAN :
          webapp' = IF exists THEN Goto(th, "create") ELSE Return(webapp, th, None)
    /\ UNCHANGED <<backend_vars, experiment>>

\* app.py:39: watson_predictor = create_predictor_from_config(config_file),
\* which returns a new object or raises (app.py:49-51).
create_predictor_from_config(th) ==
    /\ At(th, "create")
    /\ \E raised \in BOOLEAN :
          LET invoked == [webapp EXCEPT !.created = @ + 1]
              object == Len(webapp.tested) + 1
          IN  webapp' =
                 IF raised THEN Return(invoked, th, None)
                 ELSE [invoked EXCEPT !.watson_predictor = Some(object),
                                      !.tested = Append(@, "untested"),
                                      !.threads[th].pc = "test"]
    /\ UNCHANGED <<backend_vars, experiment>>

\* app.py:42-46: watson_predictor.test_connection(), on the object the global
\* holds at this moment; it returns True or False and never raises
\* (watson_predictor_simple.py:107-118).
test_connection(th) ==
    /\ At(th, "test")
    /\ \E connected \in BOOLEAN :
          LET object == webapp.watson_predictor[1]
              tested == [webapp EXCEPT !.tested[object] =
                                          IF connected THEN "ok" ELSE "failed"]
          IN  webapp' = IF connected
                        THEN [tested EXCEPT !.threads[th].pc = "return"]
                        ELSE Return(tested, th, None)
    /\ UNCHANGED <<backend_vars, experiment>>

\* app.py:52: return watson_predictor
return_watson_predictor(th) ==
    /\ At(th, "return")
    /\ webapp' = Return(webapp, th, webapp.watson_predictor)
    /\ UNCHANGED <<backend_vars, experiment>>

InitPredictor ==
    /\ BackendInit
    /\ webapp = InitialWebapp
    /\ experiment = <<>>

NextPredictor ==
    \/ \E th \in Threads : call_get_watson_predictor(th)
    \/ \E th \in Threads : check_config_file(th)
    \/ \E th \in Threads : create_predictor_from_config(th)
    \/ \E th \in Threads : test_connection(th)
    \/ \E th \in Threads : return_watson_predictor(th)

SpecPredictor == InitPredictor /\ [][NextPredictor]_vars

----------------------------------------------------------------------------
(* The AutoML runner *)

\* run_automl_experiment (src/run_experiment.py:99-147) calls the steps of
\* WatsonKidneyStonePredictor one after the other inside one try block; each
\* step returns or raises, and the except clause logs and re-raises.

\* The ids the service may give the pipeline of a finished experiment; None
\* is a pipeline_details without metadata.id.
PipelineIds == {None, Some("p1"), Some("p2")}

\* experiment.pc is the step about to run ("idle", "raised" and "returned"
\* between runs); calls lists the steps invoked in the current run, succeeded
\* those that returned; pipeline_id is what run_experiment returned; finished
\* is what the earlier runs left in the log: the steps they invoked and how
\* they ended.
InitialExperiment ==
    [pc |-> "idle", runs |-> 0, calls |-> <<>>, succeeded |-> {},
     pipeline_id |-> None, finished |-> <<>>]

\* The statement order of lines 117-132, with deploy_model moved before
\* get_experiment_results.
NextStepDeployingFirst(step) ==
    CASE step = "authenticate" -> "setup_experiment"
      [] step = "setup_experiment" -> "upload_training_data"
      [] step = "upload_training_data" -> "run_experiment"
      [] step = "run_experiment" -> "deploy_model"
      [] step = "deploy_model" -> "get_experiment_results"
      [] step = "get_experiment_results" -> "returned"

\* The statement that follows a step that returned
\* (run_experiment.py:117-143).
NextStep(step) ==
    CASE step = "authenticate" -> "setup_experiment"
      [] step = "setup_experiment" -> "upload_training_data"
      [] step = "upload_training_data" -> "run_experiment"
      [] step = "run_experiment" -> "get_experiment_results"
      [] step = "get_experiment_results" -> "deploy_model"
      [] step = "deploy_model" -> "returned"

\* The step is invoked and raises: the except clause re-raises.
Raises(step) ==
    [experiment EXCEPT !.calls = Append(@, step), !.pc = "raised"]

\* The step is invoked and returns.
Succeeds(step) ==
    [experiment EXCEPT !.calls = Append(@, step),
                       !.succeeded = @ \cup {step},
                       !.pc = NextStep(step)]

\* The outcomes of a step that depends on the service only.
Step(step) == {Raises(step), Succeeds(step)}

\* run_experiment.py:99-114: the call, and the constructor, which raises
\* when the configuration cannot be loaded.
run_automl_experiment ==
    /\ experiment.pc \in {"idle", "raised", "returned"}
    /\ experiment.runs < MaxRuns
    /\ \E loaded \in BOOLEAN :
          experiment' = [InitialExperiment EXCEPT
                            !.runs = experiment.runs + 1,
                            !.pc = IF loaded THEN "authenticate" ELSE "raised",
                            !.finished =
                                IF experiment.runs = 0 THEN <<>>
                                ELSE Append(experiment.finished,
                                            [calls |-> experiment.calls,
                                             pc |-> experiment.pc])]
    /\ UNCHANGED <<backend_vars, webapp>>

\* run_experiment.py:117
authenticate ==
    /\ experiment.pc = "authenticate"
    /\ experiment' \in Step("authenticate")
    /\ UNCHANGED <<backend_vars, webapp>>

\* run_experiment.py:120
setup_experiment ==
    /\ experiment.pc = "setup_experiment"
    /\ experiment' \in Step("setup_experiment")
    /\ UNCHANGED <<backend_vars, webapp>>

\* run_experiment.py:123
upload_training_data ==
    /\ experiment.pc = "upload_training_data"
    /\ experiment' \in Step("upload_training_data")
    /\ UNCHANGED <<backend_vars, webapp>>

\* run_experiment.py:126: pipeline_details comes from the service.
run_experiment ==
    /\ experiment.pc = "run_experiment"
    /\ \/ experiment' = Raises("run_experiment")
       \/ \E id \in PipelineIds :
             experiment' = [Succeeds("run_experiment") EXCEPT !.pipeline_id = id]
    /\ UNCHANGED <<backend_vars, webapp>>

\* run_experiment.py:129 and watson_automl_kidney_predictor.py:267-304: a
\* pipeline_details without an id raises ValueError.
get_experiment_results ==
    /\ experiment.pc = "get_experiment_results"
    /\ experiment' \in
          IF experiment.pipeline_id = None
          THEN {Raises("get_experiment_results")}
          ELSE {Raises("get_experiment_results"), Succeeds("get_experiment_results")}
    /\ UNCHANGED <<backend_vars, webapp>>

\* run_experiment.py:132-143: the deployment, then the result dict is
\* returned.
deploy_model ==
    /\ experiment.pc = "deploy_model"
    /\ experiment' \in Step("deploy_model")
    /\ UNCHANGED <<backend_vars, webapp>>

InitExperiment ==
    /\ BackendInit
    /\ webapp = <<>>
    /\ experiment = InitialExperiment

NextExperiment ==
    \/ run_automl_experiment
    \/ authenticate
    \/ setup_experiment
    \/ upload_training_data
    \/ run_experiment
    \/ get_experiment_results
    \/ deploy_model

SpecExperiment == InitExperiment /\ [][NextExperiment]_vars

----------------------------------------------------------------------------
(* Vocabulary of the properties *)

Stored(id) == id \in DOMAIN appointments

\* The actor is a doctor whose doctor-profile id is the appointment's doctor_id.
MatchingDoctor(user, appointment) ==
    /\ user.role = "doctor"
    /\ \E d \in doctors : d.user_id = user.id /\ d.id = appointment.doctor_id

HasProfile(user) == \E d \in doctors : d.user_id = user.id

\* Neither the patient, nor the matching doctor, nor a superuser.
Unrelated(user, appointment) ==
    /\ user.id # appointment.patient_id
    /\ ~MatchingDoctor(user, appointment)
    /\ ~user.is_superuser

\* The latest request was op, on an appointment that is (still) stored.
OnStored(op) == last.op = op /\ Stored(last.id)

Actor == UserById(last.actor)

----------------------------------------------------------------------------
(* C1 *)

\* C1: a read of a stored appointment by an actor who is neither its patient,
\* nor its matching doctor, nor a superuser answers Forbidden and returns no
\* appointment data.
C1_UnrelatedReadForbidden ==
    (OnStored("read") /\ Unrelated(Actor, appointments[last.id]))
        => (last.result = "Forbidden" /\ last.ret = <<>>)

----------------------------------------------------------------------------
(* C2 *)

\* C2 as stated: every create request (that the schema accepts), by any
\* actor, succeeds and stores the actor's id as patient_id.
C2_EveryCreateSucceeds ==
    (last.op = "create" /\ last.result # "ValidationError")
        => /\ last.result = "ok"
           /\ Stored(last.id)
           /\ appointments[last.id].patient_id = last.actor

\* C2 amended: a create request naming an existing doctor profile succeeds, and
\* the stored and returned appointment's patient_id is the actor's id whatever
\* patient_id the body carries; a create that fails stores nothing.
C2_CreateForcesPatientId ==
    [][ last'.op = "create" =>
          /\ (CreateBodyValid(last'.request)
                /\ \E d \in doctors : d.id = last'.request.doctor_id[1])
                => last'.result = "ok"
          /\ last'.result = "ok" =>
                /\ ~Stored(last'.id)
                /\ last'.id \in DOMAIN appointments'
                /\ appointments'[last'.id].patient_id = last'.actor
                /\ last'.ret = <<appointments'[last'.id]>>
          /\ last'.result # "ok" => appointments' = appointments ]_vars

\* A create whose body names another patient succeeded.
C2_Witness ==
    /\ last.op = "create" /\ last.result = "ok"
    /\ last.request.extra_patient_id # None
    /\ last.request.extra_patient_id[1] # last.actor
    /\ appointments[last.id].patient_id = last.actor

----------------------------------------------------------------------------
(* C3 *)

\* C3: read, update and delete of an existing appointment by a superuser
\* succeed, whoever the superuser is.
C3_SuperuserAlwaysSucceeds ==
    (last.op \in {"read", "update", "delete"}
        /\ Actor.is_superuser /\ last.result # "NotFound")
        => last.result = "ok"

----------------------------------------------------------------------------
(* C4 *)

\* C4: a read of a stored appointment by its patient or by its matching doctor
\* returns the appointment.
C4_PatientAndDoctorRead ==
    (OnStored("read")
        /\ (last.actor = appointments[last.id].patient_id
              \/ MatchingDoctor(Actor, appointments[last.id])))
        => (last.result = "ok" /\ last.ret = <<appointments[last.id]>>)

----------------------------------------------------------------------------
(* C5 *)

\* The step is a delete of a stored appointment by its matching doctor, who is
\* no superuser.
DeleteByMatchingDoctor ==
    /\ last'.op = "delete"
    /\ Stored(last'.id)
    /\ ~UserById(last'.actor).is_superuser
    /\ MatchingDoctor(UserById(last'.actor), appointments[last'.id])

\* C5 as stated: a delete by the matching doctor (no superuser) answers
\* Forbidden and leaves the appointment stored.
C5_DoctorCannotDelete ==
    [][ DeleteByMatchingDoctor
          => (last'.result = "Forbidden" /\ appointments' = appointments) ]_vars

\* C5 amended: a delete by the matching doctor (no superuser) who is not the
\* appointment's patient answers Forbidden and leaves the appointment stored;
\* a doctor who booked the appointment as its patient deletes it.
C5_DoctorNotPatientCannotDelete ==
    [][ DeleteByMatchingDoctor =>
          IF last'.actor # appointments[last'.id].patient_id
          THEN last'.result = "Forbidden" /\ appointments' = appointments
          ELSE last'.result = "ok" /\ last'.id \notin DOMAIN appointments' ]_vars

\* The matching doctor's delete of another patient's appointment was refused.
C5_Witness ==
    /\ OnStored("delete") /\ last.result = "Forbidden"
    /\ ~Actor.is_superuser
    /\ MatchingDoctor(Actor, appointments[last.id])
    /\ last.actor # appointments[last.id].patient_id

----------------------------------------------------------------------------
(* C6 *)

\* C6: once the owning patient's delete of an appointment has succeeded, every
\* later read, update or delete of that id, by any actor, answers NotFound
\* (ids are not assigned again).
C6_DeletedStaysNotFound ==
    [][ (last'.op \in {"read", "update", "delete"} /\ last'.id \in deleted)
          => last'.result = "NotFound" ]_vars

\* A read of a deleted id answered NotFound after a later create.
C6_Witness ==
    /\ last.op = "read" /\ last.id \in deleted /\ last.result = "NotFound"
    /\ \E i \in DOMAIN appointments : i > last.id

----------------------------------------------------------------------------
(* C7 *)

\* The update of the step got past the existence and permission checks.
UpdatePassedChecks ==
    /\ last'.op = "update"
    /\ last'.result \notin {"NotFound", "Forbidden", "AttributeError"}

\* The update of the step was committed (whatever became of its response).
UpdateCommitted ==
    /\ last'.op = "update"
    /\ last'.result \in {"ok", "ResponseValidationError"}

\* The row holds the payload's value in every field the payload set and its
\* prior value in every other column but updated_at.
PatchApplied ==
    LET set == last'.request.fields_set
        before == appointments[last'.id]
        after == appointments'[last'.id]
    IN  \A c \in AppointmentColumns :
           IF c \in set THEN after[c] = last'.request[c]
           ELSE c # "updated_at" => after[c] = before[c]

\* C7 as stated: every authorized update leaves each field of its payload at
\* the supplied value and every other field but updated_at at its prior value.
C7_EveryAuthorizedUpdatePatches ==
    [][ UpdatePassedChecks => PatchApplied ]_vars

\* C7 amended: every authorized update whose payload does not set
\* scheduled_date to null is a sparse patch (payload fields hold the supplied
\* values, every other field but updated_at and every other appointment keep
\* their values); one that sets scheduled_date to null fails on the column's
\* NOT NULL constraint and changes nothing.
C7_SparsePatch ==
    [][ UpdatePassedChecks =>
          IF "scheduled_date" \in last'.request.fields_set
                /\ last'.request.scheduled_date = None
          THEN last'.result = "IntegrityError" /\ appointments' = appointments
          ELSE /\ UpdateCommitted
               /\ PatchApplied
               /\ \A i \in DOMAIN appointments \ {last'.id} :
                     i \in DOMAIN appointments' /\ appointments'[i] = appointments[i]
      ]_vars

\* The payload {status: completed} was applied to an appointment whose other
\* fields are not the defaults.
C7_Witness ==
    /\ OnStored("update") /\ last.result = "ok"
    /\ last.request.fields_set = {"status"}
    /\ last.request.status = Some("completed")
    /\ appointments[last.id].status = Some("completed")
    /\ appointments[last.id].notes = Some("t")
    /\ appointments[last.id].is_virtual = Some(TRUE)
    /\ appointments[last.id].updated_at > appointments[last.id].created_at

----------------------------------------------------------------------------
(* C8 *)

\* C8: the list endpoint, called by a doctor with no linked doctor profile,
\* returns an empty sequence and no error.
C8_DoctorWithoutProfileListsNothing ==
    (last.op = "list" /\ Actor.role = "doctor" /\ ~HasProfile(Actor))
        => (last.result = "ok" /\ last.ret = <<>>)

----------------------------------------------------------------------------
(* C9 *)

\* The stored appointments the list endpoint is to show the user.
Scoped(user) ==
    IF user.role = "doctor"
    THEN {appointments[i] : i \in
            {j \in DOMAIN appointments :
                \E d \in doctors : d.user_id = user.id
                                     /\ d.id = appointments[j].doctor_id}}
    ELSE {appointments[i] : i \in
            {j \in DOMAIN appointments : appointments[j].patient_id = user.id}}

\* C9: the list endpoint returns only appointments of the actor's scope (by
\* doctor_id for a doctor, by patient_id for any other role), and all of them
\* when the offset is 0 and the limit is at least the size of the store.
C9_ListScoping ==
    last.op = "list" =>
        /\ \A i \in 1..Len(last.ret) : last.ret[i] \in Scoped(Actor)
        /\ (last.request.skip = 0
              /\ last.request.limit >= Cardinality(DOMAIN appointments))
              => \A a \in Scoped(Actor) : \E i \in 1..Len(last.ret) : last.ret[i] = a

----------------------------------------------------------------------------
(* C10 *)

\* C10: the update check lets through exactly the actors the read check lets
\* through, and in particular the owning patient and the matching doctor.
C10_UpdateAuthorizationAsRead ==
    /\ \A u \in users : \A i \in DOMAIN appointments :
          (UpdatePermission(u, appointments[i]) = "allow")
              <=> (ReadPermission(u, appointments[i]) = "allow")
    /\ (OnStored("update")
          /\ (last.actor = appointments[last.id].patient_id
                \/ MatchingDoctor(Actor, appointments[last.id])))
          => last.result \notin {"Forbidden", "AttributeError"}

----------------------------------------------------------------------------
(* C11 *)

SingleOps == {"read", "update", "delete"}

\* The latest request found no row under its id: the id is not stored, and
\* the request is not the delete that has just removed it.
Missed ==
    /\ last.op \in SingleOps
    /\ ~Stored(last.id)
    /\ ~(last.op = "delete" /\ last.result = "ok")

\* C11: a read, update or delete of an id that is not stored answers
\* NotFound for every actor, whatever the actor's role, and Forbidden is
\* answered only for an id that is stored: the existence check comes before
\* the policy.
C11_NotFoundBeforePolicy ==
    /\ Missed => (last.result = "NotFound" /\ last.ret = <<>>)
    /\ (last.op \in SingleOps /\ last.result \in {"Forbidden", "AttributeError"})
          => Stored(last.id)
    /\ (last.op \in SingleOps /\ last.result = "NotFound") => ~Stored(last.id)

\* A user who is neither patient nor superuser of the one stored appointment
\* (a delete of it is forbidden to them) gets NotFound for an id never
\* assigned.
C11_Witness ==
    /\ Missed
    /\ last.op = "delete"
    /\ last.result = "NotFound"
    /\ last.id >= next_id
    /\ \E i \in DOMAIN appointments :
          DeletePermission(Actor, appointments[i]) = "forbidden"

----------------------------------------------------------------------------
(* C12 *)

\* The actors the policy authorizes to update an appointment: its patient,
\* its matching doctor, a superuser.
AuthorizedToUpdate(user, appointment) ==
    \/ user.id = appointment.patient_id
    \/ MatchingDoctor(user, appointment)
    \/ user.is_superuser

\* C12: status transitions are unguarded. An update of a stored appointment
\* by its patient, its matching doctor or a superuser is not rejected
\* whatever the current status, and one whose payload is {status: t}
\* succeeds and leaves the appointment with status t, for every pair of
\* current status and t.
C12_AnyStatusTransition ==
    (OnStored("update") /\ AuthorizedToUpdate(Actor, appointments[last.id]))
        => /\ last.result \notin {"Forbidden", "AttributeError"}
           /\ (/\ last.request.fields_set = {"status"}
               /\ last.request.status # None)
                 => /\ last.result = "ok"
                    /\ appointments[last.id].status = last.request.status

----------------------------------------------------------------------------
(* C13 *)

\* C13: patient_id and doctor_id of an appointment never change between its
\* creation and its deletion, whatever any update request carries.
C13_PartiesImmutable ==
    [][ \A i \in DOMAIN appointments \cap DOMAIN appointments' :
           /\ appointments'[i].patient_id = appointments[i].patient_id
           /\ appointments'[i].doctor_id = appointments[i].doctor_id ]_vars

\* An update whose body names patient 2 and doctor profile 9 was committed
\* to an appointment, which still names its creator and doctor profile 7.
C13_Witness ==
    /\ OnStored("update") /\ last.wrote
    /\ last.request = RebindingUpdate
    /\ last.actor = appointments[last.id].patient_id
    /\ last.actor = 1
    /\ appointments[last.id].doctor_id = 7
    /\ appointments[last.id].updated_at > appointments[last.id].created_at

----------------------------------------------------------------------------
(* C14 *)

\* C14: every stored appointment's patient_id is the id of an existing user
\* and its doctor_id the id of an existing doctor profile; a create request
\* that names a doctor_id with no doctor profile leaves no appointment.
C14_ReferentialIntegrity ==
    /\ \A i \in DOMAIN appointments :
          /\ \E u \in users : u.id = appointments[i].patient_id
          /\ \E d \in doctors : d.id = appointments[i].doctor_id
    /\ (/\ last.op = "create"
        /\ last.result # "ValidationError"
        /\ \A d \in doctors : Some(d.id) # last.request.doctor_id)
          => (last.result = "IntegrityError" /\ ~Stored(last.id))

\* A create request naming doctor profile 9, which does not exist, was
\* refused while another appointment is stored.
C14_Witness ==
    /\ last.op = "create"
    /\ last.result = "IntegrityError"
    /\ last.request.doctor_id = Some(9)
    /\ appointments # <<>>

----------------------------------------------------------------------------
(* C15 *)

\* C15: the status of every stored appointment is one of the six status
\* values, never null, and it is scheduled right after a successful create.
C15_StatusDomain ==
    /\ \A i \in DOMAIN appointments :
          \E s \in AppointmentStatus : appointments[i].status = Some(s)
    /\ (OnStored("create") /\ last.result = "ok")
          => appointments[last.id].status = Some("scheduled")

----------------------------------------------------------------------------
(* C16 *)

\* The step is a successful create: the new row carries the current time in
\* both timestamps.
CreateStamps ==
    (last'.op = "create" /\ last'.result = "ok")
        => /\ appointments'[last'.id].created_at = UtcNow
           /\ appointments'[last'.id].updated_at = UtcNow

\* created_at of a stored appointment never changes, and updated_at is never
\* earlier than created_at.
TimestampsOrdered ==
    /\ \A i \in DOMAIN appointments \cap DOMAIN appointments' :
          appointments'[i].created_at = appointments[i].created_at
    /\ \A i \in DOMAIN appointments' :
          appointments'[i].updated_at >= appointments'[i].created_at

\* The step is a successful update that changed a column other than
\* updated_at.
UpdateChangedAColumn ==
    \E c \in AppointmentColumns \ {"updated_at"} :
       appointments'[last'.id][c] # appointments[last'.id][c]

\* C16 as stated: a successful create sets created_at and updated_at to the
\* current time; every successful update, an empty payload or equal values
\* included, sets updated_at to the current time; created_at never changes
\* and updated_at >= created_at.
C16_EveryUpdateRefreshes ==
    [][ /\ CreateStamps
        /\ TimestampsOrdered
        /\ (last'.op = "update" /\ last'.result = "ok")
              => appointments'[last'.id].updated_at = UtcNow ]_vars

\* C16 amended: a successful create sets created_at and updated_at to the
\* current time; a successful update that changes the value of at least one
\* column sets updated_at to the current time, and one that changes none (an
\* empty payload, or values equal to the stored ones) leaves the row, with
\* its updated_at, as it was; created_at never changes and
\* updated_at >= created_at.
C16_UpdateRefreshesOnChange ==
    [][ /\ CreateStamps
        /\ TimestampsOrdered
        /\ (last'.op = "update" /\ last'.result = "ok")
              => IF UpdateChangedAColumn
                 THEN appointments'[last'.id].updated_at = UtcNow
                 ELSE appointments'[last'.id] = appointments[last'.id] ]_vars

\* A successful update changed a column of an appointment created earlier:
\* updated_at is the time of the update and created_at the time of the
\* create.
C16_Witness ==
    /\ OnStored("update") /\ last.result = "ok" /\ last.wrote
    /\ appointments[last.id].updated_at = now
    /\ appointments[last.id].created_at < now
    /\ appointments[last.id].created_at >= 1

----------------------------------------------------------------------------
(* C17 *)

\* The columns an update is not to change: all but the nine fields of
\* AppointmentUpdate and updated_at.
FrameColumns ==
    {"id", "patient_id", "doctor_id", "appointment_type", "created_at",
     "actual_start_time", "actual_end_time", "consultation_fee",
     "payment_status", "follow_up_required", "follow_up_date",
     "ai_risk_score", "ai_recommendations"}

\* C17: an update request can change only the nine fields of
\* AppointmentUpdate and updated_at: whatever its actor, payload and
\* outcome, it removes no appointment and leaves id, patient_id, doctor_id,
\* appointment_type, created_at, actual_start_time, actual_end_time,
\* consultation_fee, payment_status, follow_up_required, follow_up_date,
\* ai_risk_score and ai_recommendations of every appointment as they were.
C17_UpdateFrame ==
    [][ last'.op = "update" =>
          /\ FrameColumns = AppointmentColumns \ (UpdateFields \cup {"updated_at"})
          /\ DOMAIN appointments' = DOMAIN appointments
          /\ \A i \in DOMAIN appointments : \A c \in FrameColumns :
                appointments'[i][c] = appointments[i][c] ]_vars

\* An update was committed to an emergency appointment, which is still an
\* emergency appointment with its creation time.
C17_Witness ==
    /\ OnStored("update") /\ last.wrote /\ last.result = "ok"
    /\ appointments[last.id].appointment_type = "emergency"
    /\ appointments[last.id].created_at < appointments[last.id].updated_at
    /\ appointments[last.id].payment_status = "pending"

----------------------------------------------------------------------------
(* C19 *)

\* C19: a delete of a stored appointment by its patient or by a superuser
\* succeeds whatever the appointment's status is, and a successful delete
\* removes exactly that appointment: every other appointment and every user
\* and doctor record is as before.
C19_HardDeleteNoCascade ==
    [][ /\ (/\ last'.op = "delete"
            /\ last'.id \in DOMAIN appointments
            /\ \/ last'.actor = appointments[last'.id].patient_id
               \/ UserById(last'.actor).is_superuser)
              => last'.result = "ok"
        /\ (last'.op = "delete" /\ last'.result = "ok")
              => /\ last'.id \in DOMAIN appointments
                 /\ DOMAIN appointments' = DOMAIN appointments \ {last'.id}
                 /\ \A i \in DOMAIN appointments' :
                       appointments'[i] = appointments[i]
                 /\ users' = users
                 /\ doctors' = doctors ]_vars

\* An appointment was deleted after an update had been committed, and
\* another appointment of the same patient is still stored, untouched since
\* its creation.
C19_Witness ==
    /\ last.op = "delete" /\ last.result = "ok"
    /\ ~Stored(last.id)
    /\ updates = 1
    /\ \E i \in DOMAIN appointments :
          /\ appointments[i].patient_id = last.actor
          /\ appointments[i].updated_at = appointments[i].created_at

----------------------------------------------------------------------------
(* C20 *)

\* The scenario's parties among the initial rows: P1 is user 1, the
\* unrelated patient P2 is user 2, D1 is doctor profile 7 and the user linked
\* to it is user 3.
\* The appointment the step addresses was created by P1 with doctor D1.
ScenarioAppointment(id) ==
    /\ id \in DOMAIN appointments
    /\ appointments[id].patient_id = 1
    /\ appointments[id].doctor_id = 7

\* The outcome the scenario gives a request on its appointment.
ScenarioOutcome(op, actor) ==
    CASE op = "read"   /\ actor = 1 -> {"ok"}
      [] op = "read"   /\ actor = 2 -> {"Forbidden"}
      [] op = "read"   /\ actor = 3 -> {"ok"}
      [] op = "update" /\ actor = 3 -> {"ok"}
      [] op = "delete" /\ actor = 3 -> {"Forbidden"}
      [] op = "delete" /\ actor = 1 -> {"ok"}
      [] OTHER -> {}

\* C20: on an appointment that patient P1 created with doctor D1, P1's get
\* succeeds, unrelated patient P2's get is Forbidden, the get and the update
\* of the user linked to D1 succeed, that user's delete is Forbidden and
\* P1's delete succeeds, whatever requests on other appointments come in
\* between.
C20_Scenario ==
    [][ (/\ ScenarioAppointment(last'.id)
         /\ appointments[last'.id].status = Some("scheduled")
         /\ ScenarioOutcome(last'.op, last'.actor) # {}
         /\ last'.op = "update" => last'.result # "IntegrityError")
           => last'.result \in ScenarioOutcome(last'.op, last'.actor) ]_vars

----------------------------------------------------------------------------
(* C18 *)

\* Both concurrent requests passed the lookup and the permission check and
\* have been answered.
BothAnswered ==
    /\ DOMAIN in_flight = Requests
    /\ \A r \in Requests : in_flight[r].pc = "done" /\ in_flight[r].loaded # None

\* The request's transaction committed (possibly with nothing to write).
Committed(r) == in_flight[r].order > 0

Payload(r) == in_flight[r].appointment_in

\* The request's payload sets field f, and the request committed.
Writes(r, f) == Committed(r) /\ f \in Payload(r).fields_set

\* The payload sets scheduled_date to null: the request fails on its own.
NullsDate(r) ==
    "scheduled_date" \in Payload(r).fields_set /\ Payload(r).scheduled_date = None

NullsStatus(r) == "status" \in Payload(r).fields_set /\ Payload(r).status = None

\* The row as the two requests leave it.
Final == appointments[in_flight[1].id]

\* Request a committed after request b.
After(a, b) == in_flight[a].order > in_flight[b].order

\* Request a loaded the row before b's UPDATE of field f and sets f to the
\* value it loaded, which b has changed.
StaleEqual(a, b, f) ==
    /\ in_flight[a].stale
    /\ Payload(a)[f] = in_flight[a].loaded[1][f]
    /\ Payload(b)[f] # in_flight[b].loaded[1][f]

\* A field that only one of the requests writes ends with that request's
\* value.
SingleWriterKeeps ==
    \A f \in UpdateFields : \A a \in Requests : \A b \in Requests \ {a} :
       (Writes(a, f) /\ ~Writes(b, f)) => Final[f] = Payload(a)[f]

----------------------------------------------------------------------------
(* C21 *)

Max(a, b) == IF a > b THEN a ELSE b

\* C21: the list endpoint, called with offset skip and limit limit by an
\* actor whose scope holds n appointments, returns exactly
\* min(limit, max(n - skip, 0)) appointments, all of the scope and no one
\* twice; skip defaults to 0, limit to 100, and a larger limit is not cut.
C21_Pagination ==
    last.op = "list" =>
        LET n == Cardinality(Scoped(Actor))
        IN  /\ last.result = "ok"
            /\ Len(last.ret) = Min(last.request.limit,
                                   Max(n - last.request.skip, 0))
            /\ \A i \in 1..Len(last.ret) : last.ret[i] \in Scoped(Actor)
            /\ \A i, j \in 1..Len(last.ret) : i # j => last.ret[i] # last.ret[j]

----------------------------------------------------------------------------
(* C22 *)

\* C22: no two stored appointments share an id, and the id a successful
\* create returns is the id of the row it stored and of no other stored
\* appointment, whatever the request body carries.
C22_UniqueIds ==
    /\ \A i, j \in DOMAIN appointments :
          i # j => appointments[i].id # appointments[j].id
    /\ (last.op = "create" /\ last.result = "ok")
          => /\ Stored(last.id)
             /\ last.ret[1].id = appointments[last.id].id
             /\ \A i \in DOMAIN appointments \ {last.id} :
                   appointments[i].id # last.ret[1].id

\* A second appointment was created, from a body with undeclared keys, next
\* to one stored earlier.
C22_Witness ==
    /\ last.op = "create" /\ last.result = "ok"
    /\ last.request.extra_patient_id # None
    /\ Cardinality(DOMAIN appointments) = 2
    /\ last.ret[1].id = 2

----------------------------------------------------------------------------
(* C24 *)

\* C24: a read, update or delete that answers NotFound or Forbidden leaves
\* the store as it was: the same appointments, with the same value in every
\* field, updated_at included.
C24_FailedOperationsChangeNothing ==
    [][ (last'.op \in SingleOps /\ last'.result \in {"NotFound", "Forbidden"})
           => /\ DOMAIN appointments' = DOMAIN appointments
              /\ \A i \in DOMAIN appointments : \A c \in AppointmentColumns :
                    appointments'[i][c] = appointments[i][c] ]_vars

\* A delete was answered Forbidden on an appointment that is stored, with
\* the values of its creation.
C24_Witness ==
    /\ OnStored("delete") /\ last.result = "Forbidden"
    /\ appointments[last.id].patient_id # last.actor
    /\ appointments[last.id].updated_at = appointments[last.id].created_at

----------------------------------------------------------------------------
(* C25 *)

\* C25: a request of any kind (list, create, read, update, delete) by an
\* actor who is not a superuser, not the patient of a stored appointment and
\* not linked to its doctor profile leaves that appointment stored with every
\* field as it was, and returns the actor no row of it.
C25_NonInterference ==
    [][ \A i \in DOMAIN appointments :
           Unrelated(UserById(last'.actor), appointments[i])
              => /\ i \in DOMAIN appointments'
                 /\ appointments'[i] = appointments[i]
                 /\ \A k \in 1..Len(last'.ret) : last'.ret[k].id # i ]_vars

\* User 2 listed with a limit above the size of the store while an
\* appointment of user 1 and one of user 2 are stored: the page holds the one
\* of user 2 only.
C25_Witness ==
    /\ last.op = "list" /\ last.actor = 2 /\ last.result = "ok"
    /\ last.request.skip = 0 /\ last.request.limit = DefaultLimit
    /\ Len(last.ret) = 1
    /\ \E i \in DOMAIN appointments :
          /\ appointments[i].patient_id = 1
          /\ Unrelated(Actor, appointments[i])

----------------------------------------------------------------------------
(* C26 *)

\* A read of the appointment by the user would return it: it is stored, the
\* read check lets the user through and the response model accepts the row.
ReadWouldSucceed(user, id) ==
    /\ FirstById(id) # None
    /\ ReadPermission(user, FirstById(id)[1]) = "allow"
    /\ ResponseValid(FirstById(id)[1])

\* C26: every appointment the list endpoint returns to an actor is one a
\* single read by the same actor would return, whatever the actor's role and
\* profile linkage.
C26_ListedAreReadable ==
    last.op = "list" =>
        \A k \in 1..Len(last.ret) :
           /\ ReadWouldSucceed(Actor, last.ret[k].id)
           /\ appointments[last.ret[k].id] = last.ret[k]

\* A list returned two appointments to the actor.
C26_Witness ==
    /\ last.op = "list" /\ last.result = "ok"
    /\ Len(last.ret) = 2
    /\ last.ret[1].id # last.ret[2].id

----------------------------------------------------------------------------
(* C29 *)

\* C29: the list and the single read are pure reads: whatever they answer,
\* the stored appointments and every field of each, updated_at included, the
\* users and the doctors are as before the call.
C29_ReadsArePure ==
    [][ last'.op \in {"read", "list"}
           => /\ appointments' = appointments
              /\ users' = users
              /\ doctors' = doctors
              /\ next_id' = next_id ]_vars

\* A single read returned an appointment that had been updated before: its
\* updated_at is the time of that update.
C29_Witness ==
    /\ OnStored("read") /\ last.result = "ok"
    /\ last.ret[1] = appointments[last.id]
    /\ appointments[last.id].updated_at = now
    /\ appointments[last.id].updated_at > appointments[last.id].created_at

----------------------------------------------------------------------------
(* C27 *)

\* The step answers update request r, which had passed the lookup and the
\* permission check.
AnswersLoaded(r) == in_flight[r].pc = "loaded" /\ in_flight'[r].pc = "done"

\* C27: when the appointment of an update request that has passed its
\* checks is deleted before the update commits, the update does not bring it
\* back: the appointment stays absent and the update is not answered as a
\* success.
C27_NoResurrection ==
    [][ /\ \A r \in Requests :
              (/\ AnswersLoaded(r)
               /\ \/ in_flight[r].id \in deleted
                  \/ in_flight[r].id \notin DOMAIN appointments)
                 => /\ in_flight[r].id \notin DOMAIN appointments'
                    /\ in_flight'[r].result \notin {"ok", "ResponseValidationError"}
                    /\ in_flight'[r].order = 0 \/ in_flight'[r].result = "InvalidRequestError"
        /\ \A i \in deleted : i \notin DOMAIN appointments' ]_vars

\* An update that had loaded the appointment was answered with the error of
\* an UPDATE that matches no row, after the patient's delete; the appointment
\* is absent.
C27_Witness ==
    /\ \E r \in Requests :
          /\ in_flight[r].pc = "done"
          /\ in_flight[r].loaded # None
          /\ in_flight[r].result = "StaleDataError"
          /\ in_flight[r].id \in deleted
          /\ ~Stored(in_flight[r].id)

----------------------------------------------------------------------------
(* C23 *)

\* The latest call of the thread is over and returned a predictor.
Received(th) == At(th, "done") /\ webapp.threads[th].ret # None

\* C23: whatever the interleaving of the calls of get_watson_predictor,
\* create_predictor_from_config is invoked at most once, and all callers
\* that receive a predictor receive the same object.
C23_InitializedOnce ==
    /\ webapp.created <= 1
    /\ \A a, b \in Threads :
          (Received(a) /\ Received(b))
             => webapp.threads[a].ret = webapp.threads[b].ret

----------------------------------------------------------------------------
(* C28 *)

\* The step ends a call of thread th.
Returns(th) == ~At(th, "done") /\ webapp'.threads[th].pc = "done"

\* C28: a call of get_watson_predictor returns a predictor only if the
\* latest test_connection on that predictor succeeded; otherwise it returns
\* None.
C28_OnlyTestedPredictorReturned ==
    [][ \A th \in Threads :
           (Returns(th) /\ webapp'.threads[th].ret # None)
              => webapp.tested[webapp'.threads[th].ret[1]] = "ok" ]_vars

----------------------------------------------------------------------------
(* C30 *)

\* The order of the steps in the claim.
StepOrder ==
    <<"authenticate", "setup_experiment", "upload_training_data",
      "run_experiment", "get_experiment_results", "deploy_model">>

\* The steps a run invoked are the first steps of StepOrder, and every one
\* but the last returned.
InOrder(calls, succeeded) ==
    /\ Len(calls) <= Len(StepOrder)
    /\ \A i \in 1..Len(calls) :
          /\ calls[i] = StepOrder[i]
          /\ i < Len(calls) => calls[i] \in succeeded

\* C30: run_automl_experiment executes its steps strictly in the order
\* authenticate, setup_experiment, upload_training_data, run_experiment,
\* get_experiment_results, deploy_model; a failure in any step aborts the run
\* with no later step executed, so a model is deployed only after both the
\* experiment run and the retrieval of its results have succeeded, and a
\* result dict is returned only after deployment succeeded.
C30_StepsInOrder ==
    /\ InOrder(experiment.calls, experiment.succeeded)
    /\ \A step \in experiment.succeeded :
          \E i \in 1..Len(experiment.calls) : experiment.calls[i] = step
    /\ experiment.pc = "raised" /\ experiment.calls # <<>> =>
          experiment.calls[Len(experiment.calls)] \notin experiment.succeeded
    /\ (\E i \in 1..Len(experiment.calls) : experiment.calls[i] = "deploy_model") =>
          {"run_experiment", "get_experiment_results"} \subseteq experiment.succeeded
    /\ "get_experiment_results" \in experiment.succeeded =>
          experiment.pipeline_id # None
    /\ experiment.pc = "returned" =>
          /\ experiment.calls = StepOrder
          /\ "deploy_model" \in experiment.succeeded
    /\ \A n \in 1..Len(experiment.finished) :
          /\ experiment.finished[n].pc \in {"raised", "returned"}
          /\ experiment.finished[n].pc = "returned" =>
                experiment.finished[n].calls = StepOrder

\* A run that failed while retrieving the results, deploying nothing, is
\* followed by a run that deployed and returned.
C30_Witness ==
    /\ experiment.pc = "returned"
    /\ Len(experiment.finished) = 1
    /\ experiment.finished[1].pc = "raised"
    /\ experiment.finished[1].calls = SubSeq(StepOrder, 1, 5)

====
